---- MODULE Spec2Model ----
(***************************************************************************)
(* Model of controller/controller.py: the namespace migration controller.  *)
(*                                                                         *)
(* The cluster is the state the Kubernetes API calls read and write: the   *)
(* namespaces, and per namespace the StatefulSets, PersistentVolumeClaims, *)
(* ConfigMaps, Secrets and Deployments; cluster-wide the PersistentVolumes.*)
(* The program is watch_migrations calling migrate_namespace once per      *)
(* event; every API call of migrate_namespace is one action.  An API call  *)
(* answers as the cluster state dictates (409 on create of an existing     *)
(* name, 404 on delete of an absent one) or, while the fault budget lasts, *)
(* with another ApiException.  The phase of a volume belongs to the        *)
(* storage subsystem: every read observes whatever phase it has then.      *)
(*                                                                         *)
(* Not modelled: the settle sleeps (lines 27, 56, 75), the print calls,    *)
(* the metadata fields uid and resource_version (cleared on every clone,   *)
(* assigned by the API server), and failures of the list calls.            *)
(***************************************************************************)
EXTENDS Integers, Sequences, FiniteSets, TLC

\* ------------------------------------------------------------- bounds
MaxSts      == 1
MaxPvc      == 2
MaxCm       == 2
MaxSecret   == 1
MaxDeploy   == 1
MaxReplicas == 3
MaxEvents   == 2
MaxFaults   == 1

\* ---------------------------------------------------- program constants
\* wait_for_pv_available(pv_name, timeout=30)
PollTimeout == 30
\* pvc.spec.volume_name of a claim that is not bound (None)
NoVolume == 0

Namespaces == {"ns-a", "ns-b"}
StsNames    == 1..MaxSts
PvcNames    == 1..MaxPvc
CmNames     == 1..MaxCm
SecretNames == 1..MaxSecret
DeployNames == 1..MaxDeploy
\* one volume per claim name, and one more that only a claim already in
\* the target namespace uses
OtherVolume == MaxPvc + 1
Volumes     == 1..OtherVolume

VARIABLES
    \* the cluster
    namespaces,   \* names of the existing namespaces
    sts,          \* namespace -> (name -> [replicas])
    pvcs,         \* namespace -> (name -> [volume_name, storage_class_name])
    cms,          \* namespace -> (name -> [data])
    secrets,      \* namespace -> (name -> [data])
    deploys,      \* namespace -> set of names
    pvClaimRef,   \* volume -> whether spec.claimRef is set
    pvPhase,      \* volume -> status.phase
    \* the program
    events,       \* what the request stream has yet to deliver
    pc,           \* position of the program
    source_ns,
    target_ns,
    items,        \* what is left of the list the current loop iterates
    attempt,      \* iterations of wait_for_pv_available's loop so far
    \* the environment's fault budget
    faults,
    \* history of the current migrate_namespace run
    reached,      \* stages whose list call was made
    listed,       \* stage -> names the stage's list call returned
    attempted,    \* API call -> names it was issued for
    answers,      \* the answers the create calls of the run got
    outcome,      \* how the run stopped: "none", or the call that raised
    prev          \* the previous completed run and what it left

cluster == <<namespaces, sts, pvcs, cms, secrets, deploys, pvClaimRef, pvPhase>>
program == <<events, pc, source_ns, target_ns, items, attempt>>
history == <<reached, listed, attempted, answers, outcome, prev>>
vars    == <<cluster, program, faults, history>>

\* ------------------------------------------------------------ helpers
Put(f, k, v) == [x \in (DOMAIN f) \cup {k} |-> IF x = k THEN v ELSE f[x]]
Drop(f, k)   == [x \in (DOMAIN f) \ {k} |-> f[x]]
Empty        == [x \in {} |-> 0]

Min(S) == CHOOSE x \in S : \A y \in S : x <= y

\* a list call returns the objects in name order
RECURSIVE Listing(_, _)
Listing(f, names) ==
    IF names = {} THEN <<>>
    ELSE LET n == Min(names)
         IN <<[name |-> n, obj |-> f[n]]>> \o Listing(f, names \ {n})

ListNamespaced(kind, ns) == Listing(kind[ns], DOMAIN kind[ns])

RECURSIVE NameListing(_)
NameListing(names) ==
    IF names = {} THEN <<>>
    ELSE LET n == Min(names)
         IN <<[name |-> n]>> \o NameListing(names \ {n})

NamesOf(seq) == {seq[i].name : i \in 1..Len(seq)}

\* An API call may fail with an ApiException that is neither 409 nor 404
\* while the budget lasts.
MayFail == faults < MaxFaults
Errors  == IF MayFail THEN {"error"} ELSE {}

\* what the API server may answer to a create, a delete, a patch
CreateAnswers(exists) == (IF exists THEN {"conflict"} ELSE {"created"}) \cup Errors
DeleteAnswers(exists) == (IF exists THEN {"deleted"} ELSE {"not_found"}) \cup Errors
PatchAnswers(exists)  == (IF exists THEN {"patched"} ELSE {"not_found"}) \cup Errors

Charge(a) == faults' = IF a = "error" THEN faults + 1 ELSE faults

Stages == <<"scale", "pvc", "cm", "secret", "deploy", "sts">>
StageSet == {Stages[i] : i \in 1..Len(Stages)}
Calls  == {"sts_scale", "pvc_skip", "pvc_delete", "pv_patch", "pv_available", "pv_timeout",
           "pvc_create", "cm_create", "cm_error", "secret_create",
           "deploy_create", "deploy_delete", "sts_create", "sts_delete"}

Did(call, n) == attempted' = [attempted EXCEPT ![call] = @ \cup {n}]
Did2(c1, c2, n) ==
    attempted' = [attempted EXCEPT ![c1] = @ \cup {n}, ![c2] = @ \cup {n}]

NoHistory == [c \in Calls |-> {}]

List(stage, seq) ==
    /\ items' = seq
    /\ reached' = reached \cup {stage}
    /\ listed' = [listed EXCEPT ![stage] = NamesOf(seq)]

\* the resources of a namespace: kind, name, and for a claim its volume
ResourceSet(ns) ==
    {[kind |-> "StatefulSet", name |-> n, volume |-> NoVolume] : n \in DOMAIN sts[ns]}
    \cup {[kind |-> "PersistentVolumeClaim", name |-> n,
           volume |-> pvcs[ns][n].volume_name] : n \in DOMAIN pvcs[ns]}
    \cup {[kind |-> "ConfigMap", name |-> n, volume |-> NoVolume] : n \in DOMAIN cms[ns]}
    \cup {[kind |-> "Secret", name |-> n, volume |-> NoVolume] : n \in DOMAIN secrets[ns]}
    \cup {[kind |-> "Deployment", name |-> n, volume |-> NoVolume] : n \in deploys[ns]}

\* what migrate_namespace hands to its caller: the function ends after its
\* last print, without a return statement
ReturnValue == "None"

\* prev: the last completed run (source, target, what it left in the target,
\* whether a create call of it failed, what it returned) and, when it
\* repeated the request of the completed run before it (rerun), what that
\* one left and whether a create call of that one failed
NoRun == [ran |-> FALSE, source |-> "ns-a", target |-> "ns-a", resources |-> {},
          failed |-> FALSE, rerun |-> FALSE, earlier |-> {},
          earlierFailed |-> FALSE, returned |-> "None"]

\* ---------------------------------------------------------------- Init
StorageClassOf(n) == IF n % 2 = 1 THEN "fast" ELSE "slow"

\* every StatefulSet of the source runs the same number of replicas: none,
\* or MaxReplicas
SourceSts(replicas) == [n \in StsNames |-> [replicas |-> replicas]]
\* claim n is bound to volume n, but for at most one claim that is unbound
SourcePvcs(unbound) ==
    [n \in PvcNames |->
        [volume_name |-> IF n = unbound THEN NoVolume ELSE n,
         storage_class_name |-> StorageClassOf(n)]]
SourceCms     == [n \in CmNames |-> [data |-> "source"]]
SourceSecrets == [n \in SecretNames |-> [data |-> "source"]]

\* what a target namespace that is already in use holds: one object of each
\* kind under the first name, the claim bound to a volume of its own
Occupied(kind) ==
    CASE kind = "sts"    -> [n \in {1} |-> [replicas |-> 1]]
      [] kind = "pvc"    -> [n \in {1} |-> [volume_name |-> OtherVolume,
                                            storage_class_name |-> "other"]]
      [] kind = "cm"     -> [n \in {1} |-> [data |-> "target"]]
      [] kind = "secret" -> [n \in {1} |-> [data |-> "target"]]

\* the requests of the stream (the spec of each event's object): out of
\* ns-a, into ns-b or into ns-a itself
Requests == [sourceNamespace : {"ns-a"}, targetNamespace : Namespaces]

EventStreams == UNION {[1..k -> Requests] : k \in 1..MaxEvents}

InitCluster ==
    \E replicas \in {0, MaxReplicas},
       unbound \in {0} \cup PvcNames,
       preset \in {"absent", "empty", "occupied"} :
        /\ namespaces = IF preset = "absent" THEN {"ns-a"} ELSE Namespaces
        /\ sts = [ns \in Namespaces |->
                    IF ns = "ns-a" THEN SourceSts(replicas)
                    ELSE IF preset = "occupied" THEN Occupied("sts") ELSE Empty]
        /\ pvcs = [ns \in Namespaces |->
                    IF ns = "ns-a" THEN SourcePvcs(unbound)
                    ELSE IF preset = "occupied" THEN Occupied("pvc") ELSE Empty]
        /\ cms = [ns \in Namespaces |->
                    IF ns = "ns-a" THEN SourceCms
                    ELSE IF preset = "occupied" THEN Occupied("cm") ELSE Empty]
        /\ secrets = [ns \in Namespaces |->
                    IF ns = "ns-a" THEN SourceSecrets
                    ELSE IF preset = "occupied" THEN Occupied("secret") ELSE Empty]
        /\ deploys = [ns \in Namespaces |->
                    IF ns = "ns-a" THEN DeployNames
                    ELSE IF preset = "occupied" THEN {1} ELSE {}]
        /\ pvClaimRef = [v \in Volumes |->
                    IF v = OtherVolume THEN preset = "occupied" ELSE v # unbound]
        /\ pvPhase = [v \in Volumes |->
                    IF v = OtherVolume
                    THEN (IF preset = "occupied" THEN "Bound" ELSE "Available")
                    ELSE (IF v # unbound THEN "Bound" ELSE "Available")]

InitProgram ==
    /\ pc = "idle"
    /\ source_ns = "ns-a"
    /\ target_ns = "ns-a"
    /\ items = <<>>
    /\ attempt = 0
    /\ faults = 0
    /\ reached = {}
    /\ listed = [s \in StageSet |-> {}]
    /\ attempted = NoHistory
    /\ answers = {}
    /\ outcome = "none"
    /\ prev = NoRun

Init ==
    /\ InitCluster
    /\ InitProgram
    /\ events \in EventStreams

\* ------------------------------------------------------------- watcher
\* event["type"] as the watch delivers it
EventTypes == {"ADDED", "MODIFIED", "DELETED"}

\* the watcher starting a run for the ADDED events only: an event of another
\* type is taken off the stream and dropped
WatchNextAddedOnly ==
    /\ pc \in {"idle", "completed"}
    /\ events # <<>>
    /\ events' = Tail(events)
    /\ \E type \in EventTypes :
        LET event == [type |-> type, object |-> [spec |-> Head(events)]]
        IN IF event.type = "ADDED"
           THEN /\ source_ns' = event.object.spec.sourceNamespace
                /\ target_ns' = event.object.spec.targetNamespace
                /\ pc' = "create_namespace"
                /\ reached' = {}
                /\ listed' = [s \in StageSet |-> {}]
                /\ attempted' = NoHistory
                /\ answers' = {}
           ELSE UNCHANGED <<source_ns, target_ns, pc, reached, listed,
                            attempted, answers>>
    /\ UNCHANGED <<cluster, items, attempt, faults, outcome, prev>>

\* watch_migrations: the next event of the stream, whatever its type, starts
\* a run with the namespaces of its object.
WatchNext ==
    /\ pc \in {"idle", "completed"}
    /\ events # <<>>
    /\ \E type \in EventTypes :
        LET event == [type |-> type, object |-> [spec |-> Head(events)]]
        IN /\ source_ns' = event.object.spec.sourceNamespace
           /\ target_ns' = event.object.spec.targetNamespace
    /\ events' = Tail(events)
    /\ pc' = "create_namespace"
    /\ reached' = {}
    /\ listed' = [s \in StageSet |-> {}]
    /\ attempted' = NoHistory
    /\ answers' = {}
    /\ UNCHANGED <<cluster, items, attempt, faults, outcome, prev>>

\* The stream ends: the for loop is left and watch_migrations returns.
WatchEnd ==
    /\ pc \in {"idle", "completed"}
    /\ events = <<>>
    /\ pc' = "exit"
    /\ UNCHANGED <<cluster, events, source_ns, target_ns, items, attempt,
                   faults, history>>

\* --------------------------------------------------- migrate_namespace
\* the namespace create with every ApiException raised again, the 409 of an
\* existing namespace included
CreateNamespaceStrict ==
    /\ pc = "create_namespace"
    /\ \E a \in CreateAnswers(target_ns \in namespaces) :
        /\ namespaces' = IF a = "created" THEN namespaces \cup {target_ns}
                         ELSE namespaces
        /\ pc' = IF a \in {"error", "conflict"} THEN "raised" ELSE "list_scale"
        /\ outcome' = IF a \in {"error", "conflict"} THEN "create_namespace"
                      ELSE outcome
        /\ answers' = answers \cup {a}
        /\ Charge(a)
    /\ UNCHANGED <<sts, pvcs, cms, secrets, deploys, pvClaimRef, pvPhase,
                   events, source_ns, target_ns, items, attempt,
                   reached, listed, attempted, prev>>

\* Ensure target namespace exists: 409 is passed over, any other
\* ApiException is raised again (and leaves watch_migrations too).
CreateNamespace ==
    /\ pc = "create_namespace"
    /\ \E a \in CreateAnswers(target_ns \in namespaces) :
        /\ namespaces' = IF a = "created" THEN namespaces \cup {target_ns}
                         ELSE namespaces
        /\ pc' = IF a = "error" THEN "raised" ELSE "list_scale"
        /\ outcome' = IF a = "error" THEN "create_namespace" ELSE outcome
        /\ answers' = answers \cup {a}
        /\ Charge(a)
    /\ UNCHANGED <<sts, pvcs, cms, secrets, deploys, pvClaimRef, pvPhase,
                   events, source_ns, target_ns, items, attempt,
                   reached, listed, attempted, prev>>

\* for sts in apps_api.list_namespaced_stateful_set(source_ns).items
ListForScaleDown ==
    /\ pc = "list_scale"
    /\ List("scale", ListNamespaced(sts, source_ns))
    /\ pc' = "scale"
    /\ UNCHANGED <<cluster, events, source_ns, target_ns, attempt, faults,
                   attempted, answers, outcome, prev>>

\* the scale-down loop run without its patch taking effect
ScaleDownWithoutPatch ==
    /\ pc = "scale"
    /\ items # <<>>
    /\ LET n == Head(items).name
       IN \E a \in PatchAnswers(n \in DOMAIN sts[source_ns]) :
            /\ sts' = sts
            /\ Charge(a)
            /\ Did("sts_scale", n)
    /\ items' = Tail(items)
    /\ UNCHANGED <<namespaces, pvcs, cms, secrets, deploys, pvClaimRef, pvPhase,
                   events, pc, source_ns, target_ns, attempt,
                   reached, listed, answers, outcome, prev>>

\* patch replicas to 0; an ApiException is passed over
ScaleDown ==
    /\ pc = "scale"
    /\ items # <<>>
    /\ LET n == Head(items).name
       IN \E a \in PatchAnswers(n \in DOMAIN sts[source_ns]) :
            /\ sts' = IF a = "patched"
                      THEN [sts EXCEPT ![source_ns][n].replicas = 0]
                      ELSE sts
            /\ Charge(a)
            /\ Did("sts_scale", n)
    /\ items' = Tail(items)
    /\ UNCHANGED <<namespaces, pvcs, cms, secrets, deploys, pvClaimRef, pvPhase,
                   events, pc, source_ns, target_ns, attempt,
                   reached, listed, answers, outcome, prev>>

\* the claims listed before the scale-down loop is through
ListPvcsEarly ==
    /\ pc = "scale"
    /\ List("pvc", ListNamespaced(pvcs, source_ns))
    /\ pc' = "pvc"
    /\ UNCHANGED <<cluster, events, source_ns, target_ns, attempt, faults,
                   attempted, answers, outcome, prev>>

\* time.sleep(5), then
\* for pvc in core_api.list_namespaced_persistent_volume_claim(source_ns).items
ListPvcs ==
    /\ pc = "scale"
    /\ items = <<>>
    /\ List("pvc", ListNamespaced(pvcs, source_ns))
    /\ pc' = "pvc"
    /\ UNCHANGED <<cluster, events, source_ns, target_ns, attempt, faults,
                   attempted, answers, outcome, prev>>

\* the test for a bound volume name left out
IsUnboundNever(pvc) == FALSE

\* if not pvc.spec.volume_name
IsUnbound(pvc) == pvc.volume_name = NoVolume

\* an unbound claim is skipped: continue
SkipUnbound ==
    /\ pc = "pvc"
    /\ items # <<>>
    /\ IsUnbound(Head(items).obj)
    /\ Did("pvc_skip", Head(items).name)
    /\ items' = Tail(items)
    /\ UNCHANGED <<cluster, events, pc, source_ns, target_ns, attempt, faults,
                   reached, listed, answers, outcome, prev>>

\* delete the claim in the source namespace; an ApiException is passed over
DeletePvc ==
    /\ pc = "pvc"
    /\ items # <<>>
    /\ ~IsUnbound(Head(items).obj)
    /\ LET n == Head(items).name
       IN \E a \in DeleteAnswers(n \in DOMAIN pvcs[source_ns]) :
            /\ pvcs' = IF a = "deleted"
                       THEN [pvcs EXCEPT ![source_ns] = Drop(@, n)]
                       ELSE pvcs
            /\ Charge(a)
            /\ Did("pvc_delete", n)
    /\ pc' = "pv_patch"
    /\ UNCHANGED <<namespaces, sts, cms, secrets, deploys, pvClaimRef, pvPhase,
                   events, source_ns, target_ns, items, attempt,
                   reached, listed, answers, outcome, prev>>

\* time.sleep(2), then clear the volume's claimRef; an ApiException is
\* passed over
PatchPv ==
    /\ pc = "pv_patch"
    /\ LET n == Head(items).name
           pv_name == Head(items).obj.volume_name
       IN \E a \in PatchAnswers(TRUE) :
            /\ pvClaimRef' = IF a = "patched"
                             THEN [pvClaimRef EXCEPT ![pv_name] = FALSE]
                             ELSE pvClaimRef
            /\ Charge(a)
            /\ Did("pv_patch", n)
    /\ pc' = "wait"
    /\ attempt' = 0
    /\ UNCHANGED <<namespaces, sts, pvcs, cms, secrets, deploys, pvPhase,
                   events, source_ns, target_ns, items,
                   reached, listed, answers, outcome, prev>>

\* The phase a volume has when it is read is the storage subsystem's: it
\* may have made the volume Available or not (then the volume is Bound
\* while a claim names it, Released otherwise).
Claimed(pv_name) ==
    \E ns \in Namespaces : \E n \in DOMAIN pvcs[ns] :
        pvcs[ns][n].volume_name = pv_name
Phases(pv_name) ==
    {"Available", IF Claimed(pv_name) THEN "Bound" ELSE "Released"}

\* one iteration deciding on the phase an earlier read observed, not on the
\* phase the volume has now
ReadPvReusingPhase ==
    /\ pc = "wait"
    /\ attempt < PollTimeout
    /\ LET n == Head(items).name
           pv_name == Head(items).obj.volume_name
       IN \/ /\ \E phase \in Phases(pv_name) :
                  /\ pvPhase' = [pvPhase EXCEPT ![pv_name] = phase]
                  /\ IF pvPhase[pv_name] = "Available"
                     THEN /\ pc' = "pvc_create"
                          /\ attempt' = 0
                          /\ Did("pv_available", n)
                     ELSE /\ pc' = "wait"
                          /\ attempt' = attempt + 1
                          /\ UNCHANGED attempted
             /\ UNCHANGED <<faults, outcome>>
          \/ /\ MayFail
             /\ pc' = "raised"
             /\ outcome' = "read_persistent_volume"
             /\ faults' = faults + 1
             /\ attempt' = 0
             /\ UNCHANGED <<pvPhase, attempted>>
    /\ UNCHANGED <<namespaces, sts, pvcs, cms, secrets, deploys, pvClaimRef,
                   events, source_ns, target_ns, items,
                   reached, listed, answers, prev>>

\* wait_for_pv_available, one iteration: read the volume and look at the
\* phase it has now.  An ApiException of the read is caught nowhere.
ReadPv ==
    /\ pc = "wait"
    /\ attempt < PollTimeout
    /\ LET n == Head(items).name
           pv_name == Head(items).obj.volume_name
       IN \/ /\ \E phase \in Phases(pv_name) :
                  /\ pvPhase' = [pvPhase EXCEPT ![pv_name] = phase]
                  /\ IF phase = "Available"
                     THEN /\ pc' = "pvc_create"
                          /\ attempt' = 0
                          /\ Did("pv_available", n)
                     ELSE /\ pc' = "wait"
                          /\ attempt' = attempt + 1
                          /\ UNCHANGED attempted
             /\ UNCHANGED <<faults, outcome>>
          \/ /\ MayFail
             /\ pc' = "raised"
             /\ outcome' = "read_persistent_volume"
             /\ faults' = faults + 1
             /\ attempt' = 0
             /\ UNCHANGED <<pvPhase, attempted>>
    /\ UNCHANGED <<namespaces, sts, pvcs, cms, secrets, deploys, pvClaimRef,
                   events, source_ns, target_ns, items,
                   reached, listed, answers, prev>>

\* the result of wait_for_pv_available ignored: the claim is created anyway
WaitExhaustedCreates ==
    /\ pc = "wait"
    /\ attempt = PollTimeout
    /\ Did("pv_timeout", Head(items).name)
    /\ pc' = "pvc_create"
    /\ attempt' = 0
    /\ UNCHANGED <<cluster, events, source_ns, target_ns, items, faults,
                   reached, listed, answers, outcome, prev>>

\* wait_for_pv_available returns False after the last iteration: continue
WaitExhausted ==
    /\ pc = "wait"
    /\ attempt = PollTimeout
    /\ Did("pv_timeout", Head(items).name)
    /\ pc' = "pvc"
    /\ items' = Tail(items)
    /\ attempt' = 0
    /\ UNCHANGED <<cluster, events, source_ns, target_ns, faults,
                   reached, listed, answers, outcome, prev>>

\* new_pvc without spec.volume_name: the volume is left for the cluster to
\* choose
ClonePvcWithoutVolume(pvc, pv_name) ==
    [volume_name |-> NoVolume, storage_class_name |-> pvc.storage_class_name]

\* new_pvc: the name, the storage class and the volume of the listed claim
ClonePvc(pvc, pv_name) ==
    [volume_name |-> pv_name, storage_class_name |-> pvc.storage_class_name]

\* create the claim in the target namespace: 409 is passed over, any other
\* ApiException is raised again
CreatePvc ==
    /\ pc = "pvc_create"
    /\ LET n == Head(items).name
           pvc == Head(items).obj
       IN \E a \in CreateAnswers(n \in DOMAIN pvcs[target_ns]) :
            /\ pvcs' = IF a = "created"
                       THEN [pvcs EXCEPT ![target_ns] =
                                Put(@, n, ClonePvc(pvc, pvc.volume_name))]
                       ELSE pvcs
            /\ pc' = IF a = "error" THEN "raised" ELSE "pvc"
            /\ outcome' = IF a = "error" THEN "create_persistent_volume_claim"
                          ELSE outcome
            /\ items' = IF a = "error" THEN items ELSE Tail(items)
            /\ answers' = answers \cup {a}
            /\ Charge(a)
            /\ Did("pvc_create", n)
    /\ UNCHANGED <<namespaces, sts, cms, secrets, deploys, pvClaimRef, pvPhase,
                   events, source_ns, target_ns, attempt,
                   reached, listed, prev>>

\* for cm in core_api.list_namespaced_config_map(source_ns).items
ListConfigMaps ==
    /\ pc = "pvc"
    /\ items = <<>>
    /\ List("cm", ListNamespaced(cms, source_ns))
    /\ pc' = "cm"
    /\ UNCHANGED <<cluster, events, source_ns, target_ns, attempt, faults,
                   attempted, answers, outcome, prev>>

\* the listed object with namespace, resource_version and uid reset: what
\* is left of it is its data
CloneConfig(obj) == [data |-> obj.data]

\* the ConfigMap create handled as the claim create is: 409 passed over,
\* any other ApiException raised again
CreateConfigMapRaising ==
    /\ pc = "cm"
    /\ items # <<>>
    /\ LET n == Head(items).name
       IN \E a \in CreateAnswers(n \in DOMAIN cms[target_ns]) :
            /\ cms' = IF a = "created"
                      THEN [cms EXCEPT ![target_ns] =
                                Put(@, n, CloneConfig(Head(items).obj))]
                      ELSE cms
            /\ answers' = answers \cup {a}
            /\ Charge(a)
            /\ pc' = IF a = "error" THEN "raised" ELSE pc
            /\ outcome' = IF a = "error" THEN "create_config_map" ELSE outcome
            /\ items' = IF a = "error" THEN items ELSE Tail(items)
            /\ IF a = "error" THEN Did2("cm_create", "cm_error", n)
                              ELSE Did("cm_create", n)
    /\ UNCHANGED <<namespaces, sts, pvcs, secrets, deploys, pvClaimRef, pvPhase,
                   events, source_ns, target_ns, attempt,
                   reached, listed, prev>>

\* create the ConfigMap in the target namespace; every ApiException, 409
\* or not, is passed over
CreateConfigMap ==
    /\ pc = "cm"
    /\ items # <<>>
    /\ LET n == Head(items).name
       IN \E a \in CreateAnswers(n \in DOMAIN cms[target_ns]) :
            /\ cms' = IF a = "created"
                      THEN [cms EXCEPT ![target_ns] =
                                Put(@, n, CloneConfig(Head(items).obj))]
                      ELSE cms
            /\ answers' = answers \cup {a}
            /\ Charge(a)
            /\ IF a = "error" THEN Did2("cm_create", "cm_error", n)
                              ELSE Did("cm_create", n)
    /\ items' = Tail(items)
    /\ UNCHANGED <<namespaces, sts, pvcs, secrets, deploys, pvClaimRef, pvPhase,
                   events, pc, source_ns, target_ns, attempt,
                   reached, listed, outcome, prev>>

\* for secret in core_api.list_namespaced_secret(source_ns).items
ListSecrets ==
    /\ pc = "cm"
    /\ items = <<>>
    /\ List("secret", ListNamespaced(secrets, source_ns))
    /\ pc' = "secret"
    /\ UNCHANGED <<cluster, events, source_ns, target_ns, attempt, faults,
                   attempted, answers, outcome, prev>>

\* the Secret moved as a Deployment is: created in the target namespace, then
\* removed from the source namespace
CreateSecretMoving ==
    /\ pc = "secret"
    /\ items # <<>>
    /\ LET n == Head(items).name
       IN \E a \in CreateAnswers(n \in DOMAIN secrets[target_ns]) :
            /\ secrets' = [IF a = "created"
                           THEN [secrets EXCEPT ![target_ns] =
                                    Put(@, n, CloneConfig(Head(items).obj))]
                           ELSE secrets
                           EXCEPT ![source_ns] = Drop(@, n)]
            /\ answers' = answers \cup {a}
            /\ Charge(a)
            /\ Did("secret_create", n)
    /\ items' = Tail(items)
    /\ UNCHANGED <<namespaces, sts, pvcs, cms, deploys, pvClaimRef, pvPhase,
                   events, pc, source_ns, target_ns, attempt,
                   reached, listed, outcome, prev>>

\* create the Secret in the target namespace; every ApiException is passed
\* over
CreateSecret ==
    /\ pc = "secret"
    /\ items # <<>>
    /\ LET n == Head(items).name
       IN \E a \in CreateAnswers(n \in DOMAIN secrets[target_ns]) :
            /\ secrets' = IF a = "created"
                          THEN [secrets EXCEPT ![target_ns] =
                                    Put(@, n, CloneConfig(Head(items).obj))]
                          ELSE secrets
            /\ answers' = answers \cup {a}
            /\ Charge(a)
            /\ Did("secret_create", n)
    /\ items' = Tail(items)
    /\ UNCHANGED <<namespaces, sts, pvcs, cms, deploys, pvClaimRef, pvPhase,
                   events, pc, source_ns, target_ns, attempt,
                   reached, listed, outcome, prev>>

\* for deploy in apps_api.list_namespaced_deployment(source_ns).items
ListDeployments ==
    /\ pc = "secret"
    /\ items = <<>>
    /\ List("deploy", NameListing(deploys[source_ns]))
    /\ pc' = "deploy"
    /\ UNCHANGED <<cluster, events, source_ns, target_ns, attempt, faults,
                   attempted, answers, outcome, prev>>

\* create the Deployment in the target namespace; every ApiException is
\* passed over
CreateDeployment ==
    /\ pc = "deploy"
    /\ items # <<>>
    /\ LET n == Head(items).name
       IN \E a \in CreateAnswers(n \in deploys[target_ns]) :
            /\ deploys' = IF a = "created"
                          THEN [deploys EXCEPT ![target_ns] = @ \cup {n}]
                          ELSE deploys
            /\ answers' = answers \cup {a}
            /\ Charge(a)
            /\ Did("deploy_create", n)
    /\ pc' = "deploy_delete"
    /\ UNCHANGED <<namespaces, sts, pvcs, cms, secrets, pvClaimRef, pvPhase,
                   events, source_ns, target_ns, items, attempt,
                   reached, listed, outcome, prev>>

\* delete the Deployment in the source namespace, whatever the create
\* answered; an ApiException is passed over
DeleteDeployment ==
    /\ pc = "deploy_delete"
    /\ LET n == Head(items).name
       IN \E a \in DeleteAnswers(n \in deploys[source_ns]) :
            /\ deploys' = IF a = "deleted"
                          THEN [deploys EXCEPT ![source_ns] = @ \ {n}]
                          ELSE deploys
            /\ Charge(a)
            /\ Did("deploy_delete", n)
    /\ pc' = "deploy"
    /\ items' = Tail(items)
    /\ UNCHANGED <<namespaces, sts, pvcs, cms, secrets, pvClaimRef, pvPhase,
                   events, source_ns, target_ns, attempt,
                   reached, listed, answers, outcome, prev>>

\* for sts in apps_api.list_namespaced_stateful_set(source_ns).items
ListStatefulSets ==
    /\ pc = "deploy"
    /\ items = <<>>
    /\ List("sts", ListNamespaced(sts, source_ns))
    /\ pc' = "sts"
    /\ UNCHANGED <<cluster, events, source_ns, target_ns, attempt, faults,
                   attempted, answers, outcome, prev>>

\* the listed object sent as it is, with the replicas the source has
CloneStatefulSetAsListed(obj) == obj

\* sts.spec.replicas = 1 on the listed object
CloneStatefulSet(obj) == [obj EXCEPT !.replicas = 1]

\* create the StatefulSet in the target namespace; every ApiException is
\* passed over
CreateStatefulSet ==
    /\ pc = "sts"
    /\ items # <<>>
    /\ LET n == Head(items).name
       IN \E a \in CreateAnswers(n \in DOMAIN sts[target_ns]) :
            /\ sts' = IF a = "created"
                      THEN [sts EXCEPT ![target_ns] =
                                Put(@, n, CloneStatefulSet(Head(items).obj))]
                      ELSE sts
            /\ answers' = answers \cup {a}
            /\ Charge(a)
            /\ Did("sts_create", n)
    /\ pc' = "sts_delete"
    /\ UNCHANGED <<namespaces, pvcs, cms, secrets, deploys, pvClaimRef, pvPhase,
                   events, source_ns, target_ns, items, attempt,
                   reached, listed, outcome, prev>>

\* the delete issued against the target namespace instead of the source
DeleteStatefulSetInTarget ==
    /\ pc = "sts_delete"
    /\ LET n == Head(items).name
       IN \E a \in DeleteAnswers(n \in DOMAIN sts[target_ns]) :
            /\ sts' = IF a = "deleted"
                      THEN [sts EXCEPT ![target_ns] = Drop(@, n)]
                      ELSE sts
            /\ Charge(a)
            /\ Did("sts_delete", n)
    /\ pc' = "sts"
    /\ items' = Tail(items)
    /\ UNCHANGED <<namespaces, pvcs, cms, secrets, deploys, pvClaimRef, pvPhase,
                   events, source_ns, target_ns, attempt,
                   reached, listed, answers, outcome, prev>>

\* delete the StatefulSet in the source namespace, whatever the create
\* answered; an ApiException is passed over
DeleteStatefulSet ==
    /\ pc = "sts_delete"
    /\ LET n == Head(items).name
       IN \E a \in DeleteAnswers(n \in DOMAIN sts[source_ns]) :
            /\ sts' = IF a = "deleted"
                      THEN [sts EXCEPT ![source_ns] = Drop(@, n)]
                      ELSE sts
            /\ Charge(a)
            /\ Did("sts_delete", n)
    /\ pc' = "sts"
    /\ items' = Tail(items)
    /\ UNCHANGED <<namespaces, pvcs, cms, secrets, deploys, pvClaimRef, pvPhase,
                   events, source_ns, target_ns, attempt,
                   reached, listed, answers, outcome, prev>>

\* print("Migration completed successfully"): migrate_namespace returns
Completed ==
    /\ pc = "sts"
    /\ items = <<>>
    /\ pc' = "completed"
    /\ prev' = [ran |-> TRUE, source |-> source_ns, target |-> target_ns,
                resources |-> ResourceSet(target_ns),
                failed |-> "error" \in answers,
                rerun |-> /\ prev.ran
                          /\ prev.source = source_ns
                          /\ prev.target = target_ns,
                earlier |-> prev.resources,
                earlierFailed |-> prev.failed,
                returned |-> ReturnValue]
    /\ UNCHANGED <<cluster, events, source_ns, target_ns, items, attempt,
                   faults, reached, listed, attempted, answers, outcome>>

Next ==
    \/ WatchNext
    \/ WatchEnd
    \/ CreateNamespace
    \/ ListForScaleDown
    \/ ScaleDown
    \/ ListPvcs
    \/ SkipUnbound
    \/ DeletePvc
    \/ PatchPv
    \/ ReadPv
    \/ WaitExhausted
    \/ CreatePvc
    \/ ListConfigMaps
    \/ CreateConfigMap
    \/ ListSecrets
    \/ CreateSecret
    \/ ListDeployments
    \/ CreateDeployment
    \/ DeleteDeployment
    \/ ListStatefulSets
    \/ CreateStatefulSet
    \/ DeleteStatefulSet
    \/ Completed

Spec == Init /\ [][Next]_vars

TypeOK ==
    /\ pc \in {"idle", "create_namespace", "list_scale", "scale", "pvc",
               "pv_patch", "wait", "pvc_create", "cm", "secret", "deploy",
               "deploy_delete", "sts", "sts_delete", "completed", "raised",
               "exit"}
    /\ faults \in 0..MaxFaults
    /\ attempt \in 0..PollTimeout

\* ------------------------------------------------------------- claims
Running  == pc \notin {"idle", "completed", "raised", "exit"}
Stopped  == pc \in {"completed", "raised"}
Distinct == source_ns # target_ns

\* every item the stage listed has had the stage's calls issued for it
StageDone(stage) ==
    CASE stage = "scale"  -> attempted["sts_scale"] = listed["scale"]
      [] stage = "pvc"    -> attempted["pvc_skip"] \cup attempted["pvc_delete"]
                                = listed["pvc"]
                             /\ attempted["pv_patch"] = attempted["pvc_delete"]
                             /\ attempted["pv_available"] \cup attempted["pv_timeout"]
                                = attempted["pvc_delete"]
                             /\ attempted["pvc_create"] = attempted["pv_available"]
      [] stage = "cm"     -> attempted["cm_create"] = listed["cm"]
      [] stage = "secret" -> attempted["secret_create"] = listed["secret"]
      [] stage = "deploy" -> /\ attempted["deploy_create"] = listed["deploy"]
                             /\ attempted["deploy_delete"] = listed["deploy"]
      [] stage = "sts"    -> /\ attempted["sts_create"] = listed["sts"]
                             /\ attempted["sts_delete"] = listed["sts"]

StageOf(call) ==
    CASE call = "sts_scale" -> "scale"
      [] call \in {"pvc_skip", "pvc_delete", "pv_patch", "pv_available",
                   "pv_timeout", "pvc_create"} -> "pvc"
      [] call \in {"cm_create", "cm_error"} -> "cm"
      [] call = "secret_create" -> "secret"
      [] call \in {"deploy_create", "deploy_delete"} -> "deploy"
      [] call \in {"sts_create", "sts_delete"} -> "sts"

\* C1: whatever per-item API call fails (a patch, a delete, a create or a
\* volume read on an item of a stage), a run (source and target distinct)
\* does not raise to its caller: it never stops on the ApiException of a
\* volume read or of a claim create.
C1_NoItemFailureRaises ==
    Distinct =>
        outcome \notin {"read_persistent_volume", "create_persistent_volume_claim"}

\* C2: at no moment of a run (source and target distinct) is there a claim
\* name and a volume such that a claim of that name exists in the source
\* namespace and one in the target namespace, both naming that volume.
C2_ExclusiveBinding ==
    Distinct =>
        ~ \E n \in DOMAIN pvcs[source_ns] \cap DOMAIN pvcs[target_ns] :
            /\ pvcs[source_ns][n].volume_name # NoVolume
            /\ pvcs[source_ns][n].volume_name = pvcs[target_ns][n].volume_name

\* C3: a claim create is issued only for a claim whose volume a poll of this
\* run observed Available, the poll coming after the delete of the source
\* claim and the clearing of the claim reference were attempted; a claim
\* whose polls ran out without observing Available gets no create call.
C3_CreateOnlyAfterAvailable ==
    /\ attempted["pvc_create"] \subseteq attempted["pv_available"]
    /\ attempted["pv_available"] \subseteq
            attempted["pvc_delete"] \cap attempted["pv_patch"]
    /\ attempted["pv_timeout"] \cap attempted["pvc_create"] = {}
    /\ pc = "pvc_create" => Head(items).name \in attempted["pv_available"]

C3_Witness ==
    /\ attempted["pvc_create"] # {}
    /\ attempted["pv_timeout"] # {}
    /\ pc = "completed"

\* C4: once a claim's volume has failed to become Available within the
\* poll window, the run (source and target distinct) still ends with every
\* other listed claim processed by the PVC stage and the ConfigMap, Secret,
\* Deployment and StatefulSet stages run.
C4_TimeoutBlocksNothing ==
    (attempted["pv_timeout"] # {} /\ Stopped /\ Distinct) =>
        /\ StageDone("pvc")
        /\ {"cm", "secret", "deploy", "sts"} \subseteq reached
        /\ \A stage \in {"cm", "secret", "deploy", "sts"} : StageDone(stage)

\* C5: the stages come in the fixed order namespace-ensure, scale-down, PVC
\* rebind, ConfigMaps, Secrets, Deployments, StatefulSets: a call of a stage
\* is issued only once the target namespace exists and every earlier stage
\* has been listed and attempted for every one of its items.
C5_StageOrder ==
    /\ reached # {} => target_ns \in namespaces
    /\ \A call \in Calls : attempted[call] # {} => StageOf(call) \in reached
    /\ \A i \in 1..Len(Stages) :
        Stages[i] \in reached =>
            \A j \in 1..(i - 1) : Stages[j] \in reached /\ StageDone(Stages[j])

C5_Witness ==
    /\ pc = "pv_patch"
    /\ listed["scale"] # {}
    /\ attempted["sts_scale"] = listed["scale"]

\* C6: a claim of the source namespace with no bound volume name is not
\* deleted from the source and not created in the target by any step, and
\* no step that handles it patches a volume.
C6_UnboundUntouched ==
    [][ \A n \in DOMAIN pvcs[source_ns] :
            pvcs[source_ns][n].volume_name = NoVolume =>
                /\ n \in DOMAIN pvcs'[source_ns]
                /\ pvcs'[source_ns][n] = pvcs[source_ns][n]
                /\ n \notin DOMAIN pvcs[target_ns] => n \notin DOMAIN pvcs'[target_ns]
                /\ (pc = "pvc" /\ items # <<>> /\ Head(items).name = n) =>
                        /\ pc' = "pvc"
                        /\ pvClaimRef' = pvClaimRef ]_vars

C6_Witness ==
    /\ attempted["pvc_skip"] # {}
    /\ attempted["pvc_create"] # {}
    /\ Distinct
    /\ pc = "completed"

\* C7: a Deployment or StatefulSet the run has deleted from the source
\* namespace exists in the target namespace (source and target distinct),
\* also when its create call failed with an error other than "already
\* exists".
C7_DeleteOnlyAfterCopy ==
    Distinct =>
        /\ \A n \in listed["deploy"] :
                n \notin deploys[source_ns] => n \in deploys[target_ns]
        /\ \A n \in listed["sts"] :
                n \notin DOMAIN sts[source_ns] => n \in DOMAIN sts[target_ns]

\* a run that repeats the request of the completed run before it
InRerun ==
    /\ pc \notin {"idle", "completed", "exit"}
    /\ prev.ran
    /\ prev.source = source_ns
    /\ prev.target = target_ns

C9_ConfigMapFailureIsolated ==
    Cardinality(attempted["cm_error"]) = 1 =>
        /\ pc # "raised"
        /\ pc = "cm" => attempted["cm_create"] \cup NamesOf(items) = listed["cm"]
        /\ "secret" \in reached =>
                listed["cm"] \ attempted["cm_error"] \subseteq DOMAIN cms[target_ns]
        /\ pc = "completed" =>
                /\ {"secret", "deploy", "sts"} \subseteq reached
                /\ \A stage \in {"cm", "secret", "deploy", "sts"} : StageDone(stage)

C9_Witness ==
    /\ pc = "completed"
    /\ Cardinality(attempted["cm_error"]) = 1
    /\ Cardinality(listed["cm"]) >= 2
    /\ listed["sts"] # {}
    /\ listed["deploy"] # {}

\* C10: a run whose target namespace equals its source namespace is refused:
\* no Deployment, StatefulSet, claim or volume is deleted, patched or
\* created by it.
C10_SameNamespaceRefused ==
    (source_ns = target_ns) =>
        \A call \in {"sts_scale", "pvc_delete", "pv_patch", "pvc_create",
                     "deploy_create", "deploy_delete", "sts_create",
                     "sts_delete"} : attempted[call] = {}

\* C11: every StatefulSet a run creates in the target namespace is created
\* with replicas 1, whatever the replicas of the source object when it was
\* listed (0 after the scale-down, or what it ran with when the scale-down
\* patch failed); and it is created under the name of the listed item.
C11_CreatedWithOneReplica ==
    [][ \A n \in DOMAIN sts'[target_ns] :
            n \notin DOMAIN sts[target_ns] =>
                /\ pc = "sts"
                /\ n = Head(items).name
                /\ sts'[target_ns][n].replicas = 1 ]_vars

\* a StatefulSet listed with MaxReplicas replicas (its scale-down patch
\* failed) has just been created in a target that held nothing
C11_Witness ==
    /\ pc = "sts_delete"
    /\ Distinct
    /\ answers = {"created"}
    /\ Head(items).obj.replicas = MaxReplicas
    /\ Head(items).name \in DOMAIN sts[target_ns]
    /\ sts[target_ns][Head(items).name].replicas = 1

\* C12: no step of a run whose source and target namespaces are distinct
\* deletes, adds or modifies a ConfigMap or a Secret of the source
\* namespace: their set and their contents stay what they were.
C12_SourceConfigUntouched ==
    [][ Distinct =>
            /\ cms'[source_ns] = cms[source_ns]
            /\ secrets'[source_ns] = secrets[source_ns] ]_vars

\* a run has copied every ConfigMap and Secret to the target, and the source
\* holds them all with their contents
C12_Witness ==
    /\ pc = "completed"
    /\ Distinct
    /\ listed["cm"] = CmNames
    /\ listed["secret"] = SecretNames
    /\ "error" \notin answers
    /\ CmNames \subseteq DOMAIN cms[target_ns]
    /\ SecretNames \subseteq DOMAIN secrets[target_ns]
    /\ cms[source_ns] = SourceCms
    /\ secrets[source_ns] = SourceSecrets

\* the run of the worked example: out of a source that holds all its
\* StatefulSets, into another namespace that holds nothing of the same
\* name, with no API call failing, every claim bound and every volume
\* observed Available within the poll window
ExampleRun ==
    /\ Distinct
    /\ faults = 0
    /\ "conflict" \notin answers
    /\ attempted["pv_timeout"] = {}
    /\ attempted["pvc_skip"] = {}
    /\ "scale" \in reached => listed["scale"] = StsNames
    /\ "pvc" \in reached => listed["pvc"] = PvcNames

\* C13: in the run of the worked example the target namespace exists from
\* the first stage on; every StatefulSet of the source is at replicas 0
\* before the first volume operation and until it is removed; and when the
\* run has returned, no claim and no StatefulSet is left in the source, the
\* target holds every claim under its name, bound to the volume it was bound
\* to and with its storage class, every ConfigMap and Secret with its
\* contents, and every StatefulSet with replicas 1, and the source still
\* holds its ConfigMaps and Secrets.
C13_WorkedExample ==
    ExampleRun =>
        /\ reached # {} => target_ns \in namespaces
        /\ "pvc" \in reached =>
                /\ attempted["sts_scale"] = StsNames
                /\ \A n \in DOMAIN sts[source_ns] : sts[source_ns][n].replicas = 0
        /\ pc = "completed" =>
                /\ DOMAIN pvcs[source_ns] = {}
                /\ pvcs[target_ns] = SourcePvcs(NoVolume)
                /\ cms[target_ns] = SourceCms
                /\ secrets[target_ns] = SourceSecrets
                /\ sts[target_ns] = [n \in StsNames |-> [replicas |-> 1]]
                /\ DOMAIN sts[source_ns] = {}
                /\ cms[source_ns] = SourceCms
                /\ secrets[source_ns] = SourceSecrets

\* the run of the worked example has returned
C13_Witness ==
    /\ pc = "completed"
    /\ ExampleRun
    /\ target_ns = "ns-b"
    /\ 1 \in DOMAIN pvcs["ns-b"]
    /\ pvcs["ns-b"][1].volume_name = 1
    /\ 1 \notin DOMAIN pvcs["ns-a"]
    /\ sts["ns-b"][1].replicas = 1
    /\ 1 \notin DOMAIN sts["ns-a"]

\* C14: every claim a run creates in the target namespace is created under
\* the name of the listed source claim, with its storage class, and with
\* the volume the source claim was bound to when it was listed: never
\* without a volume, never with another one, and only after that volume was
\* observed Available.
C14_ClaimKeepsVolume ==
    [][ \A n \in DOMAIN pvcs'[target_ns] :
            n \notin DOMAIN pvcs[target_ns] =>
                /\ pc = "pvc_create"
                /\ n = Head(items).name
                /\ n \in listed["pvc"]
                /\ n \in attempted["pv_available"]
                /\ pvcs'[target_ns][n].volume_name # NoVolume
                /\ pvcs'[target_ns][n].volume_name = Head(items).obj.volume_name
                /\ pvcs'[target_ns][n].volume_name = n
                /\ pvcs'[target_ns][n].storage_class_name
                        = Head(items).obj.storage_class_name
                /\ pvcs'[target_ns][n].storage_class_name = StorageClassOf(n) ]_vars

\* a run into a target that held a claim under the first name, bound to
\* another volume, has created the last claim of the source there with its
\* own volume and storage class, and has left the claim of the target as
\* it was
C14_Witness ==
    /\ pc = "completed"
    /\ target_ns = "ns-b"
    /\ attempted["pvc_create"] = PvcNames
    /\ PvcNames \subseteq DOMAIN pvcs["ns-b"]
    /\ pvcs["ns-b"][MaxPvc].volume_name = MaxPvc
    /\ pvcs["ns-b"][MaxPvc].storage_class_name = StorageClassOf(MaxPvc)
    /\ pvcs["ns-b"][1].volume_name = OtherVolume

\* C15: a run that has finished has handed its caller a run record (the
\* outcome of every listed item, a failed create told apart from one
\* answered "already exists"): what it returned is not None.
C15_RunRecordReturned ==
    pc = "completed" => prev.returned # "None"

\* C16: the watcher starts one run for each event it takes off the stream
\* and takes an event off the stream only to start a run: the event taken
\* is the oldest one not yet delivered, the run gets the namespaces of that
\* event, and it starts only when no run is in progress (none was started
\* yet, or the previous one has returned); between two runs the watcher
\* does nothing else, but leave when the stream has ended.
C16_OneRunPerEvent ==
    [][ /\ events' # events =>
            /\ events # <<>>
            /\ events' = Tail(events)
            /\ pc \in {"idle", "completed"}
            /\ pc' = "create_namespace"
            /\ source_ns' = Head(events).sourceNamespace
            /\ target_ns' = Head(events).targetNamespace
        /\ (pc' = "create_namespace" \/ pc \in {"idle", "completed"}) =>
            \/ events' # events
            \/ pc' = pc
            \/ pc' = "exit" /\ events = <<>>
        /\ (source_ns' # source_ns \/ target_ns' # target_ns) =>
            events' # events ]_vars

\* the run of the second event has started after the run of the first
\* returned, into the other target
C16_Witness ==
    /\ pc = "create_namespace"
    /\ prev.ran
    /\ events = <<>>
    /\ prev.source = source_ns
    /\ prev.target # target_ns

\* C17: wait_for_pv_available reads the volume at most PollTimeout times.
\* It returns True (the claim is created next) only by a read that observes
\* the phase Available then, and that read is its last; a read that
\* observes another phase counts one attempt; it returns False (the claim is
\* given up) only when PollTimeout reads have observed another phase, and
\* then without another read; after PollTimeout reads nothing else is left
\* to it.
C17_PollBounded ==
    [][ pc = "wait" =>
            LET pv_name == Head(items).obj.volume_name
            IN /\ attempt \in 0..PollTimeout
               /\ pc' \in {"wait", "pvc_create", "pvc", "raised"}
               /\ pc' = "pvc_create" =>
                    /\ attempt < PollTimeout
                    /\ pvPhase'[pv_name] = "Available"
                    /\ attempt' = 0
               /\ pc' = "wait" =>
                    /\ attempt < PollTimeout
                    /\ pvPhase'[pv_name] # "Available"
                    /\ attempt' = attempt + 1
               /\ pc' = "pvc" =>
                    /\ attempt = PollTimeout
                    /\ pvPhase' = pvPhase
                    /\ items' = Tail(items)
                    /\ Head(items).name \notin attempted'["pv_available"]
               /\ pc' = "raised" => attempt < PollTimeout
               /\ attempt = PollTimeout => pc' = "pvc" ]_vars

\* PollTimeout reads of the volume of one claim have observed another phase
\* than Available, after the volume of an earlier claim was observed
\* Available
C17_Witness ==
    /\ pc = "wait"
    /\ attempt = PollTimeout
    /\ attempted["pv_available"] # {}
    /\ pvPhase[Head(items).obj.volume_name] # "Available"

\* C18: the create of the target namespace answered "already exists" is
\* taken as success: the run goes on to the scale-down stage, nothing is
\* raised, and no call has been issued on an item before it.  Whatever the
\* answer, the step leaves every existing namespace in place and what the
\* namespaces hold as it was.
C18_ExistingNamespaceKept ==
    [][ pc = "create_namespace" =>
            /\ namespaces \subseteq namespaces'
            /\ <<sts, pvcs, cms, secrets, deploys, pvClaimRef, pvPhase>>'
                    = <<sts, pvcs, cms, secrets, deploys, pvClaimRef, pvPhase>>
            /\ (target_ns \in namespaces /\ answers' = {"conflict"}) =>
                    /\ pc' = "list_scale"
                    /\ outcome' = outcome
                    /\ namespaces' = namespaces
                    /\ attempted' = NoHistory ]_vars

\* a run into an occupied namespace has passed the namespace create,
\* answered "already exists", and is through the scale-down stage
C18_Witness ==
    /\ pc = "pvc"
    /\ Distinct
    /\ "conflict" \in answers
    /\ attempted["sts_scale"] = StsNames
    /\ attempted["pvc_delete"] = {}
    /\ DOMAIN sts[target_ns] # {}
    /\ DOMAIN pvcs[target_ns] # {}

\* C19: no bound claim is lost.  When a run with distinct namespaces, into a
\* target that holds no claim of its own, has returned, every claim the run
\* found bound in the source (it issued the delete for it; claim n of the
\* source is bound to volume n) exists under its name, bound to that volume,
\* in the source or in the target namespace.
C19_NoBoundClaimLost ==
    (/\ pc = "completed"
     /\ Distinct
     /\ \A n \in DOMAIN pvcs[target_ns] :
            pvcs[target_ns][n].volume_name # OtherVolume) =>
        \A n \in attempted["pvc_delete"] :
            \E ns \in {source_ns, target_ns} :
                /\ n \in DOMAIN pvcs[ns]
                /\ pvcs[ns][n].volume_name = n

====
